---- MODULE Spec2Model ----
(***************************************************************************)
(* Model of waybar-updates-btw (src/main.go): two pollers (pacman, AUR)    *)
(* hand their results over unbuffered channels to the merge-and-emit loop  *)
(* of main, which keeps one slot per source and writes one JSON status     *)
(* object per loop iteration.                                              *)
(*                                                                         *)
(* A Go string is a sequence of one-character strings; a []string is a     *)
(* record [isNil, items] so that the nil slice and an empty non-nil slice  *)
(* stay distinct.  A send on an unbuffered channel and its receive are one *)
(* step (RecvPac, RecvAur).  Of standard output the model keeps the lines  *)
(* written since the last receive.  os.Exit and a run-time panic end the   *)
(* process: pc stays at "exit1", "exit2" or "panic" and nothing moves.     *)
(***************************************************************************)
EXTENDS Integers, Sequences, FiniteSets, TLC

\* ------------------------------------------------------------ bounds
\* A poller whose counter has passed MaxIter stops being scheduled (only a
\* negative interval lets a counter grow without limit).
MaxIter == 3

\* ------------------------------------------------------------ literals
TextInitial == <<"0">>

TooltipChecking == <<"C","h","e","c","k","i","n","g"," ","f","o","r"," ","u","p","d","a","t","e","s",".",".",".">>

ClassHasUpdates == <<"h","a","s","-","u","p","d","a","t","e","s">>

ClassUpdated == <<"u","p","d","a","t","e","d">>

TooltipUpToDate == <<"A","l","l"," ","p","a","c","k","a","g","e","s"," ","a","r","e"," ","u","p"," ","t","o"," ","d","a","t","e">>

DefaultColorMajor == <<"f","7","7","6","8","e">>

DefaultColorMinor == <<"f","f","9","e","6","4">>

DefaultColorPatch == <<"e","0","a","f","6","8">>

DefaultColorPre == <<"9","e","c","e","6","a">>

DefaultColorOther == <<"7","d","c","f","f","f">>

OverrideColor == <<"0","0","0","0","0","0">>

SpanOpen == <<"<","s","p","a","n"," ","f","o","n","t","-","f","a","m","i","l","y","=","'","m","o","n","o","s","p","a","c","e","'">>

ColorAttrOpen == <<" ","c","o","l","o","r","=","'","#">>

Arrow == <<" ","-",">"," ">>

SpanClose == <<"<","/","s","p","a","n",">">>

MissingArg == <<"%","!","s","(","M","I","S","S","I","N","G",")">>

AurPrefix == <<"a","u","r","/">>

MsgListError == <<"E","r","r","o","r"," ","r","u","n","n","i","n","g"," ","p","a","c","m","a","n"," ","-","Q","m",":"," ","e","x","i","t"," ","s","t","a","t","u","s"," ","1">>

MsgNothingInstalled == <<"N","o","t","h","i","n","g"," ","f","r","o","m"," ","a","u","r"," ","i","n","s","t","a","l","l","e","d">>

MsgQueryError == <<"E","r","r","o","r"," ","q","u","e","r","y","i","n","g"," ","A","U","R"," ","A","P","I",":"," ","A","U","R"," ","A","P","I"," ","r","e","t","u","r","n","e","d"," ","s","t","a","t","u","s"," ","c","o","d","e"," ","5","0","3">>


Quote == <<"'">>
Space == <<" ">>
Newline == <<"\n">>
Gt == <<">">>
Digits == <<"0","1","2","3","4","5","6","7","8","9">>

\* flag defaults, in the order of the colors slice
DefaultColors ==
  <<DefaultColorMajor, DefaultColorMinor, DefaultColorPatch, DefaultColorPre, DefaultColorOther>>

\* ------------------------------------------------------------ slices
NilSlice == [isNil |-> TRUE, items |-> <<>>]

MkSlice(items) == [isNil |-> FALSE, items |-> items]

\* append(nil, xs...) stays nil when nothing is appended
AppendAll(items) == IF items = <<>> THEN NilSlice ELSE MkSlice(items)

\* ------------------------------------------------------------ strings
Max(a, b) == IF a >= b THEN a ELSE b

IsSpace(c) == c \in {" ", "\n", "\t", "\r"}

RECURSIVE FieldsFrom(_, _, _, _)
FieldsFrom(s, i, cur, acc) ==
  IF i > Len(s)
    THEN IF cur = <<>> THEN acc ELSE Append(acc, cur)
    ELSE IF IsSpace(s[i])
      THEN FieldsFrom(s, i + 1, <<>>, IF cur = <<>> THEN acc ELSE Append(acc, cur))
      ELSE FieldsFrom(s, i + 1, Append(cur, s[i]), acc)

\* strings.Fields
Fields(s) == FieldsFrom(s, 1, <<>>, <<>>)

RECURSIVE SplitFrom(_, _, _, _)
SplitFrom(s, i, cur, acc) ==
  IF i > Len(s)
    THEN Append(acc, cur)
    ELSE IF s[i] = "\n"
      THEN SplitFrom(s, i + 1, <<>>, Append(acc, cur))
      ELSE SplitFrom(s, i + 1, Append(cur, s[i]), acc)

\* strings.Split(s, "\n"): always at least one piece
SplitLines(s) == SplitFrom(s, 1, <<>>, <<>>)

RECURSIVE TrimLeft(_)
TrimLeft(s) == IF s # <<>> /\ IsSpace(Head(s)) THEN TrimLeft(Tail(s)) ELSE s

RECURSIVE TrimRight(_)
TrimRight(s) ==
  IF s # <<>> /\ IsSpace(s[Len(s)]) THEN TrimRight(SubSeq(s, 1, Len(s) - 1)) ELSE s

\* strings.TrimSpace
TrimSpace(s) == TrimRight(TrimLeft(s))

RECURSIVE Join(_, _)
\* strings.Join
Join(lines, sep) ==
  IF lines = <<>> THEN <<>>
  ELSE IF Len(lines) = 1 THEN lines[1]
  ELSE lines[1] \o sep \o Join(Tail(lines), sep)

RECURSIVE Itoa(_)
\* fmt.Sprintf("%d", n) for n >= 0
Itoa(n) == IF n < 10 THEN <<Digits[n + 1]>> ELSE Itoa(n \div 10) \o <<Digits[(n % 10) + 1]>>

\* reading a decimal text back as a number (the empty text as 0), for the
\* properties that speak of the emitted count
DigitValue(c) == CHOOSE d \in 0..9 : Digits[d + 1] = c

RECURSIVE Atoi(_)
Atoi(s) == IF s = <<>> THEN 0 ELSE 10 * Atoi(SubSeq(s, 1, Len(s) - 1)) + DigitValue(s[Len(s)])

RECURSIVE Spaces(_)
Spaces(n) == IF n <= 0 THEN <<>> ELSE Space \o Spaces(n - 1)

\* the %-Ns verb: left-justified, padded with spaces to width w
PadRight(s, w) == s \o Spaces(w - Len(s))

\* Go's integer division truncates toward zero
GoDiv(a, b) ==
  IF (a >= 0) = (b > 0) THEN (IF a >= 0 THEN a ELSE 0 - a) \div (IF b > 0 THEN b ELSE 0 - b)
  ELSE 0 - ((IF a >= 0 THEN a ELSE 0 - a) \div (IF b > 0 THEN b ELSE 0 - b))

\* ------------------------------------------------------------ Formatter
RECURSIVE parseVersionFrom(_, _, _, _)
\* the loop of parseVersion at 1-based position i; -1 stands for the
\* index-out-of-range panic of newVersion[i] or oldVersion[i]
parseVersionFrom(oldVersion, newVersion, i, dotCounter) ==
  IF i > Max(Len(oldVersion), Len(newVersion)) THEN dotCounter
  ELSE IF i > Len(newVersion) THEN -1
  ELSE LET d == IF newVersion[i] \in {".", "-"} THEN dotCounter + 1 ELSE dotCounter
       IN  IF i > Len(oldVersion) THEN -1
           ELSE IF newVersion[i] # oldVersion[i] THEN d
           ELSE parseVersionFrom(oldVersion, newVersion, i + 1, d)

parseVersion(oldVersion, newVersion) == parseVersionFrom(oldVersion, newVersion, 1, 0)

\* A format string is kept as its items: literal text, or one %s / %-Ns verb.
Lit(s) == [verb |-> FALSE, lit |-> s, width |-> 0]

Verb(w) == [verb |-> TRUE, lit |-> <<>>, width |-> w]

RECURSIVE SprintfFrom(_, _, _, _)
SprintfFrom(format, k, args, argNum) ==
  IF k > Len(format) THEN <<>>
  ELSE IF ~format[k].verb
    THEN format[k].lit \o SprintfFrom(format, k + 1, args, argNum)
    ELSE IF argNum > Len(args)
      THEN MissingArg \o SprintfFrom(format, k + 1, args, argNum)
      ELSE PadRight(args[argNum], format[k].width)
             \o SprintfFrom(format, k + 1, args, argNum + 1)

\* fmt.Sprintf(format, args...): a verb with no operand left prints %!s(MISSING)
Sprintf(format, args) == SprintfFrom(format, 1, args, 1)

\* a test that lets lines with extra tokens through (len(part) < 4 skipped only)
WellFormedAtLeastFour(part) == Len(part) >= 4

\* line 111, line 118: the lines addFormat works on
WellFormed(part) == Len(part) = 4

RECURSIVE MaxFieldLen(_, _)
\* the first loop of addFormat: widest token at position pos over the four-token lines
MaxFieldLen(allParts, pos) ==
  IF allParts = <<>> THEN 0
  ELSE LET rest == MaxFieldLen(Tail(allParts), pos)
       IN  IF WellFormed(Head(allParts)) THEN Max(Len(Head(allParts)[pos]), rest) ELSE rest

\* what one pass of the second loop appends to formatStr for a four-token line;
\* panic when parseVersion panics or colors[category] is out of range
SpanFormat(part, colors, rawOutput, noColor, maxNameLen, maxVersionLen) ==
  LET category == IF noColor THEN 0 ELSE parseVersion(part[2], part[4])
      bad == ~noColor /\ (category < 0 \/ category >= Len(colors))
      colorAttr == IF noColor \/ bad THEN <<>>
                   ELSE <<Lit(ColorAttrOpen \o colors[category + 1] \o Quote)>>
      verbs == IF rawOutput
                 THEN <<Lit(Gt), Verb(0), Lit(Space), Verb(0), Lit(Arrow), Verb(0), Lit(SpanClose)>>
                 ELSE <<Lit(Gt), Verb(maxNameLen), Lit(Space), Verb(maxVersionLen),
                        Lit(Arrow), Verb(0), Lit(SpanClose)>>
  IN  [panic |-> bad, items |-> <<Lit(SpanOpen)>> \o colorAttr \o verbs]

RECURSIVE addFormatFrom(_, _, _, _, _, _, _, _)
\* the second loop of addFormat from line i on; formatStr is the builder, which
\* is declared once before the loops and only ever appended to
addFormatFrom(updates, allParts, i, formatStr, colors, rawOutput, noColor, widths) ==
  IF i > Len(updates) THEN [panic |-> FALSE, lines |-> updates]
  ELSE IF ~WellFormed(allParts[i])
    THEN addFormatFrom(updates, allParts, i + 1, formatStr, colors, rawOutput, noColor, widths)
    ELSE LET part == allParts[i]
             span == SpanFormat(part, colors, rawOutput, noColor, widths[1], widths[2])
             fs == formatStr \o span.items
             line == Sprintf(fs, <<part[1], part[2], part[4]>>)
         IN  IF span.panic THEN [panic |-> TRUE, lines |-> updates]
             ELSE addFormatFrom([updates EXCEPT ![i] = line], allParts, i + 1, fs,
                                colors, rawOutput, noColor, widths)

\* addFormat rewrites updates in place; here it returns the rewritten lines, or
\* panic when a run-time panic ends the process inside it
addFormat(updates, colors, rawOutput, noColor) ==
  LET allParts == [i \in 1..Len(updates) |-> Fields(updates[i])]
      widths == <<MaxFieldLen(allParts, 1), MaxFieldLen(allParts, 2)>>
  IN  addFormatFrom(updates, allParts, 1, <<>>, colors, rawOutput, noColor, widths)

\* ------------------------------------------------------------ the status object
InitialResult ==
  [Text |-> TextInitial, Tooltip |-> TooltipChecking,
   Class |-> ClassHasUpdates, Alt |-> ClassHasUpdates]

\* UpToDateResult with the count left at "0" instead of cleared
UpToDateResultZero ==
  [Text |-> TextInitial, Tooltip |-> TooltipUpToDate, Class |-> ClassUpdated,
   Alt |-> ClassUpdated]

UpToDateResult ==
  [Text |-> <<>>, Tooltip |-> TooltipUpToDate, Class |-> ClassUpdated, Alt |-> ClassUpdated]

\* Merged without line 85: the AUR entries are never appended
MergedPacOnly(pac, aur) == pac.items

\* lines 83-85: the scratch list, pacman entries first
Merged(pac, aur) == pac.items \o aur.items

\* lines 83-100: the status computed after a receive; panic when addFormat panics
Recompute(pac, aur, colors, rawOutput, noColor) ==
  LET updates == Merged(pac, aur)
      formatted == IF ~rawOutput \/ ~noColor
                     THEN addFormat(updates, colors, rawOutput, noColor)
                     ELSE [panic |-> FALSE, lines |-> updates]
  IN  IF Len(updates) = 0 THEN [panic |-> FALSE, result |-> UpToDateResult]
      ELSE IF formatted.panic THEN [panic |-> TRUE, result |-> InitialResult]
      ELSE [panic |-> FALSE,
            result |-> [Text |-> Itoa(Len(formatted.lines)),
                        Tooltip |-> Join(formatted.lines, Newline),
                        Class |-> ClassHasUpdates, Alt |-> ClassHasUpdates]]

\* ------------------------------------------------------------ the pollers' pure parts
\* lines 160-170: what checkUpdates sends for one run of the checker.
\* outcome is "ok" (exit 0, output on stdout), "exit2" (ExitError with code 2)
\* or "fail" (any other error)
PacMessage(outcome, output) ==
  IF outcome = "ok" THEN MkSlice(SplitLines(TrimSpace(output))) ELSE NilSlice

RECURSIVE LocalPackagesFrom(_, _)
LocalPackagesFrom(lines, table) ==
  IF lines = <<>> THEN table
  ELSE LET parts == Fields(Head(lines))
       IN  IF Len(parts) >= 2
             THEN LocalPackagesFrom(Tail(lines),
                    [n \in DOMAIN table \cup {parts[1]} |->
                       IF n = parts[1] THEN parts[2] ELSE table[n]])
             ELSE LocalPackagesFrom(Tail(lines), table)

\* lines 200-206: the name -> version table read from the listing
LocalPackages(output) == LocalPackagesFrom(SplitLines(output), [n \in {} |-> <<>>])

\* a map read in Go: the zero value for a missing key
Lookup(table, name) == IF name \in DOMAIN table THEN table[name] ELSE <<>>

RECURSIVE AurDiffEveryRecord(_, _)
\* the loop of lines 220-225 without the version comparison
AurDiffEveryRecord(aurPackages, localPackages) ==
  IF aurPackages = <<>> THEN <<>>
  ELSE LET p == Head(aurPackages)
       IN  <<AurPrefix \o p.Name \o Space \o Lookup(localPackages, p.Name)
               \o Arrow \o p.Version>> \o AurDiffEveryRecord(Tail(aurPackages), localPackages)

RECURSIVE AurDiffFrom(_, _)
AurDiffFrom(aurPackages, localPackages) ==
  IF aurPackages = <<>> THEN <<>>
  ELSE LET p == Head(aurPackages)
           rest == AurDiffFrom(Tail(aurPackages), localPackages)
       IN  IF p.Version # Lookup(localPackages, p.Name)
             THEN <<AurPrefix \o p.Name \o Space \o Lookup(localPackages, p.Name)
                      \o Arrow \o p.Version>> \o rest
             ELSE rest

\* lines 219-226: var updates []string, appended to per differing record
AurMessage(aurPackages, localPackages) == AppendAll(AurDiffFrom(aurPackages, localPackages))

\* the registry answers for the names it is asked about
RegistryAnswer(registry, names) == SelectSeq(registry, LAMBDA r : r.Name \in names)

\* ------------------------------------------------------------ inputs
\* what the checker can print on success
PacOutputs ==
  { <<>>,
    <<"c"," ","1",".","0"," ","-",">"," ","1",".","1","\n">>,
    <<"c"," ","1",".","0"," ","-",">"," ","1",".","1","\n","d"," ","2"," ","-",">"," ","2",".","1","\n">> }

PacOutcomes == {"ok", "exit2", "fail"}

\* what pacman -Qm can print
ListOutputs == { <<>>, <<"a"," ","1","\n">> }

\* what the registry can hold
Registries ==
  { <<>>,
    <<[Name |-> <<"a">>, Version |-> <<"1">>]>>,
    <<[Name |-> <<"a">>, Version |-> <<"2">>]>> }

IntervalArgs == {-5, 0, 5, 20}

IntervalSyncArgs == {5, 10}

\* -raw-output, -no-color and -color-major as given together
FormatArgs ==
  { <<FALSE, FALSE, DefaultColorMajor>>, <<FALSE, FALSE, OverrideColor>>,
    <<TRUE, FALSE, DefaultColorMajor>>, <<FALSE, TRUE, DefaultColorMajor>>,
    <<TRUE, TRUE, DefaultColorMajor>> }

DefaultInterval == 10

DefaultIntervalSync == 300

\* lines 37-46: the flag variables with their defaults
DefaultFlags ==
  [interval |-> DefaultInterval, intervalSync |-> DefaultIntervalSync,
   skipAur |-> FALSE, rawOutput |-> FALSE, noColor |-> FALSE,
   colorMajor |-> DefaultColorMajor, colorMinor |-> DefaultColorMinor,
   colorPatch |-> DefaultColorPatch, colorPre |-> DefaultColorPre,
   colorOther |-> DefaultColorOther]

\* the command lines considered
CommandLines ==
  { [DefaultFlags EXCEPT !.interval = i, !.intervalSync = s, !.skipAur = k,
                         !.rawOutput = f[1], !.noColor = f[2], !.colorMajor = f[3]] :
      i \in IntervalArgs, s \in IntervalSyncArgs, k \in BOOLEAN, f \in FormatArgs }

\* ------------------------------------------------------------ state
VARIABLES
  pc,           \* main: "parse", "validate", "emit", "select", "exit1", "exit2", "panic"
  flag,         \* the flag variables of main
  colors,       \* the colors slice of main
  updateOnIter, \* intervalSync / interval
  result,       \* the Result the encoder writes
  updatesPac,   \* retained pacman slot
  updatesAur,   \* retained AUR slot
  stdout,       \* what was written to standard output since the last receive
  received,     \* whether the loop has received a message yet
  pacPc,        \* checkUpdates: "off", "check", "send", "sleep", "hung"
  pacIter,      \* iter of checkUpdates
  pacSync,      \* whether the last check ran without --nosync
  pacOutcome,   \* how the last check ended
  pacMsg,       \* the value checkUpdates is sending
  pacSinceSync, \* history: checks run since the last check without --nosync
  aurPc,        \* checkAurUpdates: "off", "tick", "list", "empty", "query", "diff", "send", "hung"
  aurSendLine,  \* the line of the send checkAurUpdates is blocked in (0: none)
  aurIter,      \* iter of checkAurUpdates
  firstCall,    \* firstCall of checkAurUpdates
  aurMsg,       \* the value checkAurUpdates is sending
  aurErr,       \* whether pacman -Qm failed in this cycle
  aurOutput,    \* output of pacman -Qm in this cycle
  aurQueryErr,  \* whether queryAurAPI failed in this cycle
  aurPackages,  \* the records queryAurAPI returned in this cycle
  aurSinceDue   \* history: ticks of checkAurUpdates since its last due tick

mainVars ==
  <<pc, flag, colors, updateOnIter, result, updatesPac, updatesAur, stdout, received>>

pacVars == <<pacPc, pacIter, pacSync, pacOutcome, pacMsg, pacSinceSync>>

aurVars ==
  <<aurPc, aurSendLine, aurIter, firstCall, aurMsg, aurErr, aurOutput, aurQueryErr, aurPackages,
    aurSinceDue>>

vars == <<mainVars, pacVars, aurVars>>

\* a line of standard output: the validation diagnostic or one JSON object
DiagLine == [kind |-> "diag"]

JsonLine(r) == [kind |-> "json", Text |-> r.Text, Tooltip |-> r.Tooltip,
                Class |-> r.Class, Alt |-> r.Alt]

\* the process runs until os.Exit or a panic ends every goroutine
Running == pc \in {"emit", "select"}

\* the end of the process ends both pollers, whatever they were doing
PollersDie ==
  /\ pacPc' = "off" /\ pacIter' = 0 /\ pacSync' = FALSE /\ pacOutcome' = "none"
  /\ pacMsg' = NilSlice /\ pacSinceSync' = 0
  /\ aurPc' = "off" /\ aurSendLine' = 0 /\ aurIter' = 0 /\ firstCall' = TRUE
  /\ aurMsg' = NilSlice /\ aurErr' = FALSE /\ aurOutput' = <<>>
  /\ aurQueryErr' = FALSE /\ aurPackages' = <<>> /\ aurSinceDue' = 0

Init ==
  /\ pc = "parse"
  /\ flag = DefaultFlags
  /\ colors = DefaultColors
  /\ updateOnIter = 0
  /\ result = InitialResult
  /\ updatesPac = NilSlice
  /\ updatesAur = NilSlice
  /\ stdout = <<>>
  /\ received = FALSE
  /\ pacPc = "off" /\ pacIter = 0 /\ pacSync = FALSE /\ pacOutcome = "none" /\ pacMsg = NilSlice
  /\ pacSinceSync = 0
  /\ aurPc = "off" /\ aurSendLine = 0 /\ aurIter = 0 /\ firstCall = TRUE
  /\ aurMsg = NilSlice /\ aurErr = FALSE /\ aurOutput = <<>>
  /\ aurQueryErr = FALSE /\ aurPackages = <<>> /\ aurSinceDue = 0

\* ------------------------------------------------------------ main
\* line 49: flag.Parse stores the command line's values in the flag variables
ParseFlags ==
  /\ pc = "parse"
  /\ flag' \in CommandLines
  /\ pc' = "validate"
  /\ UNCHANGED <<colors, updateOnIter, result, updatesPac, updatesAur, stdout, received,
                 pacVars, aurVars>>

\* the condition of line 51
Rejected(f) == f.interval = 0 \/ f.intervalSync < 10 \/ f.intervalSync < f.interval

\* lines 51-54: print the diagnostic, os.Exit(1)
ValidateFail ==
  /\ pc = "validate"
  /\ Rejected(flag)
  /\ stdout' = Append(stdout, DiagLine)
  /\ pc' = "exit1"
  /\ UNCHANGED <<flag, colors, updateOnIter, result, updatesPac, updatesAur, received,
                 pacVars, aurVars>>

\* lines 56-67: start the pollers, enter the loop
StartPollers ==
  /\ pc = "validate"
  /\ ~Rejected(flag)
  /\ updateOnIter' = GoDiv(flag.intervalSync, flag.interval)
  /\ pacPc' = "check"
  /\ pacIter' = updateOnIter'
  /\ aurPc' = IF flag.skipAur THEN "off" ELSE "tick"
  /\ aurIter' = IF flag.skipAur THEN aurIter ELSE updateOnIter'
  /\ pc' = "emit"
  /\ UNCHANGED <<flag, colors, result, updatesPac, updatesAur, stdout, received, pacSync,
                 pacOutcome, pacMsg, pacSinceSync, aurSendLine, firstCall, aurMsg, aurErr, aurOutput,
                 aurQueryErr, aurPackages, aurSinceDue>>

\* line 70: encoder.Encode(result) writes one JSON object
Emit ==
  /\ pc = "emit"
  /\ stdout' = Append(stdout, JsonLine(result))
  /\ pc' = "select"
  /\ UNCHANGED <<flag, colors, updateOnIter, result, updatesPac, updatesAur, received,
                 pacVars, aurVars>>

\* lines 70-72: the encoder fails, os.Exit(2)
EmitFail ==
  /\ pc = "emit"
  /\ pc' = "exit2"
  /\ PollersDie
  /\ UNCHANGED <<flag, colors, updateOnIter, result, updatesPac, updatesAur, stdout,
                 received>>

\* Store without the nil test: every received value replaces the slot
StoreAlways(slot, temp) == temp

\* lines 75-77 and 79-81: a nil value leaves the slot alone
Store(slot, temp) == IF ~temp.isNil THEN temp ELSE slot

\* Handle that goes back to the select without encoding when the status it
\* computed equals the one already written
HandleEmitOnChange(pac, aur) ==
  LET r == Recompute(pac, aur, colors, flag.rawOutput, flag.noColor)
  IN  /\ updatesPac' = pac
      /\ updatesAur' = aur
      /\ received' = TRUE
      /\ IF r.panic
           THEN pc' = "panic" /\ result' = result /\ stdout' = <<>>
           ELSE IF r.result = result
             THEN pc' = "select" /\ result' = result /\ stdout' = <<>>
             ELSE pc' = "emit" /\ result' = r.result /\ stdout' = <<>>
      /\ UNCHANGED <<flag, colors, updateOnIter>>

\* a loop whose updates shares its storage with the slots, so that addFormat
\* rewrites the retained lines too
HandleFormattingSlots(pac, aur) ==
  LET r == Recompute(pac, aur, colors, flag.rawOutput, flag.noColor)
      lines == IF ~flag.rawOutput \/ ~flag.noColor
                 THEN addFormat(Merged(pac, aur), colors, flag.rawOutput, flag.noColor).lines
                 ELSE Merged(pac, aur)
  IN  /\ updatesPac' = [pac EXCEPT !.items = SubSeq(lines, 1, Len(pac.items))]
      /\ updatesAur' = [aur EXCEPT !.items = SubSeq(lines, Len(pac.items) + 1, Len(lines))]
      /\ stdout' = <<>>
      /\ received' = TRUE
      /\ IF r.panic
           THEN pc' = "panic" /\ result' = result
           ELSE pc' = "emit" /\ result' = r.result
      /\ UNCHANGED <<flag, colors, updateOnIter>>

\* lines 83-100 after a receive that left the slots at pac and aur
Handle(pac, aur) ==
  LET r == Recompute(pac, aur, colors, flag.rawOutput, flag.noColor)
  IN  /\ updatesPac' = pac
      /\ updatesAur' = aur
      /\ stdout' = <<>>
      /\ received' = TRUE
      /\ IF r.panic
           THEN pc' = "panic" /\ result' = result
           ELSE pc' = "emit" /\ result' = r.result
      /\ UNCHANGED <<flag, colors, updateOnIter>>

\* lines 74-77, 83-100: receive from chPacmanUpdates, which completes the send
\* of line 163, 165 or 169
RecvPac ==
  /\ pc = "select"
  /\ pacPc = "send"
  /\ Handle(Store(updatesPac, pacMsg), updatesAur)
  /\ IF pc' = "panic"
       THEN PollersDie
       ELSE /\ pacPc' = "sleep"
            /\ pacMsg' = NilSlice
            /\ UNCHANGED <<pacIter, pacSync, pacOutcome, pacSinceSync, aurVars>>

\* where checkAurUpdates goes on after the send of the given line: the sends of
\* lines 186 (continue) and 226 end the iteration, the others fall through
AfterSend(line) ==
  CASE line = 193 -> "empty"
    [] line = 197 -> "query"
    [] line = 216 -> "diff"
    [] OTHER -> "tick"

\* lines 78-81, 83-100: receive from chAurUpdates, which completes the send of
\* line 186, 193, 197, 216 or 226; after the send that ends an iteration the
\* iteration's locals (output, err, aurPackages) are gone
RecvAur ==
  /\ pc = "select"
  /\ aurPc = "send"
  /\ Handle(updatesPac, Store(updatesAur, aurMsg))
  /\ IF pc' = "panic"
       THEN PollersDie
       ELSE /\ aurPc' = AfterSend(aurSendLine)
            /\ aurSendLine' = 0
            /\ aurMsg' = NilSlice
            /\ IF AfterSend(aurSendLine) = "tick"
                 THEN /\ aurErr' = FALSE /\ aurOutput' = <<>>
                      /\ aurQueryErr' = FALSE /\ aurPackages' = <<>>
                 ELSE UNCHANGED <<aurErr, aurOutput, aurQueryErr, aurPackages>>
            /\ UNCHANGED <<aurSinceDue, aurIter, firstCall, pacVars>>

\* ------------------------------------------------------------ checkUpdates
\* a checkUpdates whose check without --nosync does not count itself
PacIterAfterResetsOnly(iter, n) == IF iter = n THEN 0 ELSE iter + 1

\* lines 153-159: iter after a check: a check without --nosync sets it to 0,
\* and every check counts itself
PacIterAfter(iter, n) == IF iter = n THEN 0 + 1 ELSE iter + 1

\* lines 153-170: run the checker (with --nosync unless iter = updateOnIter)
\* and go to send its result
PacCheck ==
  /\ Running
  /\ pacPc = "check"
  /\ pacIter = updateOnIter \/ pacIter < MaxIter
  /\ pacSync' = (pacIter = updateOnIter)
  /\ pacIter' = PacIterAfter(pacIter, updateOnIter)
  /\ pacSinceSync' = IF pacIter = updateOnIter THEN 0 ELSE pacSinceSync + 1
  /\ \E outcome \in PacOutcomes, output \in PacOutputs :
       /\ outcome # "ok" => output = <<>>
       /\ pacOutcome' = outcome
       /\ pacMsg' = PacMessage(outcome, output)
  /\ pacPc' = "send"
  /\ UNCHANGED <<mainVars, aurVars>>

\* line 160: the checker never returns
PacHang ==
  /\ Running
  /\ pacPc = "check"
  /\ pacPc' = "hung"
  /\ UNCHANGED <<pacIter, pacSync, pacOutcome, pacMsg, pacSinceSync, mainVars, aurVars>>

\* line 171: the sleep ends the iteration, and with it the iteration's err
PacSleep ==
  /\ Running
  /\ pacPc = "sleep"
  /\ pacPc' = "check"
  /\ pacOutcome' = "none"
  /\ UNCHANGED <<pacIter, pacSync, pacMsg, pacSinceSync, mainVars, aurVars>>

\* ------------------------------------------------------------ checkAurUpdates
\* a checkAurUpdates whose due tick restarts the count at 0
AurIterAfterFromZero(iter, n) == IF iter = n THEN 0 ELSE iter + 1

\* lines 184-189: iter after a tick: a due tick sets it to 1, any other
\* tick counts itself
AurIterAfter(iter, n) == IF iter = n THEN 1 ELSE iter + 1

\* lines 179-189 on a tick that is not due: count it and send nil
AurOffTick ==
  /\ Running
  /\ aurPc = "tick"
  /\ aurIter # updateOnIter
  /\ aurIter < MaxIter
  /\ firstCall' = FALSE
  /\ aurIter' = AurIterAfter(aurIter, updateOnIter)
  /\ aurSinceDue' = aurSinceDue + 1
  /\ aurMsg' = NilSlice
  /\ aurPc' = "send"
  /\ aurSendLine' = 186
  /\ UNCHANGED <<aurErr, aurOutput, aurQueryErr, aurPackages, mainVars, pacVars>>

\* lines 179-189 on a due tick
AurDueTick ==
  /\ Running
  /\ aurPc = "tick"
  /\ aurIter = updateOnIter
  /\ firstCall' = FALSE
  /\ aurIter' = AurIterAfter(aurIter, updateOnIter)
  /\ aurSinceDue' = 0
  /\ aurPc' = "list"
  /\ aurErr' = FALSE /\ aurOutput' = <<>> /\ aurQueryErr' = FALSE /\ aurPackages' = <<>>
  /\ UNCHANGED <<aurSendLine, aurMsg, mainVars, pacVars>>

\* lines 190-194: pacman -Qm; on an error send the diagnostic line and go on
AurList ==
  /\ Running
  /\ aurPc = "list"
  /\ \E err \in BOOLEAN, output \in ListOutputs :
       /\ err => output = <<>>
       /\ aurErr' = err
       /\ aurOutput' = output
       /\ IF err
            THEN aurMsg' = MkSlice(<<MsgListError>>) /\ aurPc' = "send" /\ aurSendLine' = 193
            ELSE aurMsg' = aurMsg /\ aurPc' = "empty" /\ aurSendLine' = aurSendLine
  /\ UNCHANGED <<aurSinceDue, aurIter, firstCall, aurQueryErr, aurPackages, mainVars, pacVars>>

\* lines 196-198: with no output send the informational line and go on
AurEmpty ==
  /\ Running
  /\ aurPc = "empty"
  /\ IF Len(aurOutput) = 0
       THEN aurMsg' = MkSlice(<<MsgNothingInstalled>>) /\ aurPc' = "send" /\ aurSendLine' = 197
       ELSE aurMsg' = aurMsg /\ aurPc' = "query" /\ aurSendLine' = aurSendLine
  /\ UNCHANGED <<aurSinceDue, aurIter, firstCall, aurErr, aurOutput, aurQueryErr, aurPackages,
                 mainVars, pacVars>>

\* lines 200-217: build the table, query the registry; on an error send the
\* diagnostic line and go on with no records
AurQuery ==
  /\ Running
  /\ aurPc = "query"
  /\ \E err \in BOOLEAN, registry \in Registries :
       /\ aurQueryErr' = err
       /\ IF err
            THEN /\ registry = <<>>
                 /\ aurPackages' = <<>>
                 /\ aurMsg' = MkSlice(<<MsgQueryError>>)
                 /\ aurPc' = "send"
                 /\ aurSendLine' = 216
            ELSE /\ aurPackages' = RegistryAnswer(registry, DOMAIN LocalPackages(aurOutput))
                 /\ aurMsg' = aurMsg
                 /\ aurPc' = "diff"
                 /\ aurSendLine' = aurSendLine
  /\ UNCHANGED <<aurSinceDue, aurIter, firstCall, aurErr, aurOutput, mainVars, pacVars>>

\* lines 190 and 213: the listing or the registry call never returns
AurHang ==
  /\ Running
  /\ aurPc \in {"list", "query"}
  /\ aurPc' = "hung"
  /\ UNCHANGED <<aurSinceDue, aurSendLine, aurIter, firstCall, aurMsg, aurErr, aurOutput, aurQueryErr,
                 aurPackages, mainVars, pacVars>>

\* lines 219-226: diff the versions and send the list
AurDiff ==
  /\ Running
  /\ aurPc = "diff"
  /\ aurMsg' = AurMessage(aurPackages, LocalPackages(aurOutput))
  /\ aurPc' = "send"
  /\ aurSendLine' = 226
  /\ UNCHANGED <<aurSinceDue, aurIter, firstCall, aurErr, aurOutput, aurQueryErr, aurPackages,
                 mainVars, pacVars>>

Next ==
  \/ ParseFlags \/ ValidateFail \/ StartPollers \/ Emit \/ EmitFail \/ RecvPac \/ RecvAur
  \/ PacCheck \/ PacHang \/ PacSleep
  \/ AurOffTick \/ AurDueTick \/ AurList \/ AurEmpty \/ AurQuery \/ AurHang \/ AurDiff

Spec == Init /\ [][Next]_vars

\* ------------------------------------------------------------ the formatter alone
\* The merge loop handling one list delivered by checkUpdates, for lists over
\* a wider set of lines than PacOutputs holds.
MaxBatch == 2

LineMinorBump == <<"c"," ","1",".","0"," ","-",">"," ","1",".","1">>

LineMajorBump == <<"d","d"," ","2",".","0"," ","-",">"," ","3",".","0">>

LinePrefixVersion == <<"e"," ","2"," ","-",">"," ","2",".","1">>

LineSixthField == <<"f"," ","1",".","2",".","3",".","4",".","5","-","1"," ","-",">"," ","1",".","2",".","3",".","4",".","5","-","2">>

LineThreeTokens == <<"x"," ","y"," ","z">>

LineFiveTokens == <<"g"," ","1"," ","-",">"," ","2"," ","!">>

\* lines checkupdates can print (name old -> new), and lines that do not split
\* into four tokens
FormatLines ==
  { LineMinorBump, LineMajorBump, LinePrefixVersion, LineSixthField,
    LineThreeTokens, LineFiveTokens, MsgListError, <<>> }

RECURSIVE Batches(_)
Batches(n) ==
  IF n = 0 THEN {<<>>}
  ELSE LET shorter == Batches(n - 1)
       IN  shorter \cup {Append(b, l) : b \in {c \in shorter : Len(c) = n - 1}, l \in FormatLines}

FormatBatches == Batches(MaxBatch) \ {<<>>}

\* the four output modes, AUR polling off
FormatFlags ==
  { [DefaultFlags EXCEPT !.skipAur = TRUE, !.rawOutput = r, !.noColor = n] :
      r \in BOOLEAN, n \in BOOLEAN }

\* the loop has written the start-up status and checkUpdates is in its first send
FormatInit ==
  /\ pc = "select"
  /\ flag \in FormatFlags
  /\ colors = DefaultColors
  /\ updateOnIter = GoDiv(DefaultIntervalSync, DefaultInterval)
  /\ result = InitialResult
  /\ updatesPac = NilSlice
  /\ updatesAur = NilSlice
  /\ stdout = <<JsonLine(InitialResult)>>
  /\ received = FALSE
  /\ pacPc = "send" /\ pacIter = 1 /\ pacSync = TRUE /\ pacOutcome = "ok"
  /\ pacMsg \in {MkSlice(b) : b \in FormatBatches}
  /\ pacSinceSync = 0
  /\ aurPc = "off" /\ aurSendLine = 0 /\ aurIter = 0 /\ firstCall = TRUE
  /\ aurMsg = NilSlice /\ aurErr = FALSE /\ aurOutput = <<>>
  /\ aurQueryErr = FALSE /\ aurPackages = <<>> /\ aurSinceDue = 0

FormatNext == RecvPac \/ Emit

FormatSpec == FormatInit /\ [][FormatNext]_vars

\* ------------------------------------------------------------ the pollers' cadence
\* The program after flag.Parse for accepted interval pairs that give
\* updateOnIter = 1 (10/10 and 15/10), 2 (10/5) and 3 (15/5), with the markup off.
PollIntervalArgs == {5, 10}

PollIntervalSyncArgs == {10, 15}

PollFlags ==
  { [DefaultFlags EXCEPT !.interval = i, !.intervalSync = s,
                         !.rawOutput = TRUE, !.noColor = TRUE] :
      i \in PollIntervalArgs, s \in PollIntervalSyncArgs }

PollInit ==
  /\ pc = "validate"
  /\ flag \in PollFlags
  /\ colors = DefaultColors
  /\ updateOnIter = 0
  /\ result = InitialResult
  /\ updatesPac = NilSlice
  /\ updatesAur = NilSlice
  /\ stdout = <<>>
  /\ received = FALSE
  /\ pacPc = "off" /\ pacIter = 0 /\ pacSync = FALSE /\ pacOutcome = "none" /\ pacMsg = NilSlice
  /\ pacSinceSync = 0
  /\ aurPc = "off" /\ aurSendLine = 0 /\ aurIter = 0 /\ firstCall = TRUE
  /\ aurMsg = NilSlice /\ aurErr = FALSE /\ aurOutput = <<>>
  /\ aurQueryErr = FALSE /\ aurPackages = <<>> /\ aurSinceDue = 0

PollNext ==
  \/ StartPollers \/ Emit \/ EmitFail \/ RecvPac \/ RecvAur
  \/ PacCheck \/ PacHang \/ PacSleep
  \/ AurOffTick \/ AurDueTick \/ AurList \/ AurEmpty \/ AurQuery \/ AurHang \/ AurDiff

PollSpec == PollInit /\ [][PollNext]_vars

\* ------------------------------------------------------------ the version diff alone
\* One due tick of checkAurUpdates from the point where the listing and the
\* registry have answered, for listings and registries over two packages.
DiffVersions == {<<"1">>, <<"2">>}

\* the listing's line for a package, or no line when it is not installed
DiffListingLines(name) == {<<>>} \cup {name \o Space \o v \o Newline : v \in DiffVersions}

\* what pacman -Qm can print: a, then b, then possibly a line with one token
DiffListings ==
  { la \o lb \o junk : la \in DiffListingLines(<<"a">>), lb \in DiffListingLines(<<"b">>),
                       junk \in {<<>>, <<"x", "\n">>} }

\* the registry's record for a package, or none
DiffRecords(name) == {<<>>} \cup {<<[Name |-> name, Version |-> v]>> : v \in DiffVersions}

DiffRegistries == { ra \o rb : ra \in DiffRecords(<<"a">>), rb \in DiffRecords(<<"b">>) }

\* checkUpdates sleeps after a first check that found nothing (exit code 2);
\* checkAurUpdates has the listing and the registry's answer of its first tick
DiffInit ==
  /\ pc = "select"
  /\ flag = DefaultFlags
  /\ colors = DefaultColors
  /\ updateOnIter = GoDiv(DefaultIntervalSync, DefaultInterval)
  /\ result = InitialResult
  /\ updatesPac = NilSlice
  /\ updatesAur = NilSlice
  /\ stdout = <<JsonLine(InitialResult)>>
  /\ received = TRUE
  /\ pacPc = "sleep" /\ pacIter = 1 /\ pacSync = TRUE /\ pacOutcome = "exit2"
  /\ pacMsg = NilSlice /\ pacSinceSync = 0
  /\ aurPc = "diff" /\ aurSendLine = 0 /\ aurIter = 1 /\ firstCall = FALSE
  /\ aurMsg = NilSlice /\ aurErr = FALSE /\ aurQueryErr = FALSE /\ aurSinceDue = 0
  /\ aurOutput \in DiffListings
  /\ \E registry \in DiffRegistries :
       aurPackages = RegistryAnswer(registry, DOMAIN LocalPackages(aurOutput))

DiffNext == AurDiff \/ RecvAur \/ Emit

DiffSpec == DiffInit /\ [][DiffNext]_vars

\* ------------------------------------------------------------ properties
\* a step in which the loop receives the value checkUpdates is sending
PacRecvStep == RecvPac

\* a step in which the loop receives the value checkAurUpdates is sending
AurRecvStep == RecvAur

\* the JSON objects among the lines written since the last receive
JsonLines == SelectSeq(stdout, LAMBDA l : l.kind = "json")

SlotsEmpty == Len(updatesPac.items) = 0 /\ Len(updatesAur.items) = 0

\* the configurations the interval constraints allow
ValidConfig ==
  flag.interval > 0 /\ flag.intervalSync >= 10 /\ flag.intervalSync >= flag.interval

\* the flag variables as they stand, in palette order
FlagColors ==
  <<flag.colorMajor, flag.colorMinor, flag.colorPatch, flag.colorPre, flag.colorOther>>

\* the slot holds update lines (four tokens each) delivered earlier
HoldsUpdates(slot) ==
  /\ Len(slot.items) > 0
  /\ \A i \in 1..Len(slot.items) : WellFormed(Fields(slot.items[i]))

\* C1: when the checker ended with exit code 2, the receive of that tick's
\* message leaves the pacman slot empty (no pacman entry stays in the status),
\* also when the slot held updates before.
C1_Exit2EmptiesPacSlot ==
  [][(PacRecvStep /\ ValidConfig /\ pacOutcome = "exit2" /\ HoldsUpdates(updatesPac))
       => Len(updatesPac'.items) = 0]_vars

\* C2: when a due AUR cycle with installed foreign packages had a successful
\* listing, a successful registry query and no differing version, the receive
\* of its final message leaves the AUR slot empty, also when the slot held
\* entries of an earlier cycle.
C2_CleanCycleEmptiesAurSlot ==
  [][(/\ AurRecvStep
      /\ ValidConfig
      /\ aurSendLine = 226
      /\ ~aurErr /\ ~aurQueryErr /\ Len(aurOutput) > 0
      /\ HoldsUpdates(updatesAur)
      /\ AurDiffFrom(aurPackages, LocalPackages(aurOutput)) = <<>>)
       => Len(updatesAur'.items) = 0]_vars

\* C3: the count carried by every emitted status is the length of the pacman
\* slot plus the length of the AUR slot at that emission.
C3_CountIsSumOfSlots ==
  \A i \in 1..Len(JsonLines) :
    Atoi(JsonLines[i].Text) = Len(updatesPac.items) + Len(updatesAur.items)

\* C3 witness: a status emitted with entries in both slots, carrying their sum.
C3_Witness ==
  /\ pc = "select"
  /\ Len(updatesPac.items) = 2 /\ Len(updatesAur.items) = 1
  /\ Len(JsonLines) = 1 /\ JsonLines[1].Text = <<"3">>

\* C4: receiving nil on either channel changes neither slot.
C4_SentinelKeepsSlots ==
  [][((PacRecvStep /\ pacMsg.isNil) \/ (AurRecvStep /\ aurMsg.isNil))
       => (updatesPac' = updatesPac /\ updatesAur' = updatesAur)]_vars

\* C4 witness: a nil from a failed check has been received (the poller is in
\* its sleep) while both slots still hold the entries delivered before.
C4_Witness ==
  /\ pacPc = "sleep" /\ pacOutcome = "fail" /\ received
  /\ Len(updatesPac.items) > 0 /\ Len(updatesAur.items) > 0

\* C5 as claimed: every status emitted with both slots empty is the "up to
\* date" status, and no emitted status has the text "0".
C5_EmptySlotsNeverShowZero ==
  \A i \in 1..Len(JsonLines) :
    /\ SlotsEmpty =>
         /\ JsonLines[i].Text = <<>>
         /\ JsonLines[i].Class = ClassUpdated
         /\ JsonLines[i].Alt = ClassUpdated
         /\ JsonLines[i].Tooltip = TooltipUpToDate
    /\ JsonLines[i].Text # <<"0">>

\* C5 amended: every status emitted after a receive with both slots empty is
\* the "up to date" status; the status emitted before the first receive is the
\* start-up status (text "0", tooltip "Checking for updates...", class and
\* alt "has-updates"), and it is the only status with the text "0".
C5_EmptySlotsAfterFirstReceive ==
  \A i \in 1..Len(JsonLines) :
    /\ (SlotsEmpty /\ received) =>
         /\ JsonLines[i].Text = <<>>
         /\ JsonLines[i].Class = ClassUpdated
         /\ JsonLines[i].Alt = ClassUpdated
         /\ JsonLines[i].Tooltip = TooltipUpToDate
    /\ ~received =>
         /\ JsonLines[i].Text = <<"0">>
         /\ JsonLines[i].Tooltip = TooltipChecking
         /\ JsonLines[i].Class = ClassHasUpdates
         /\ JsonLines[i].Alt = ClassHasUpdates
    /\ JsonLines[i].Text = <<"0">> => ~received

\* C5 witness: the "up to date" status emitted after a receive, slots empty.
C5_Witness ==
  /\ received /\ SlotsEmpty /\ pc = "select"
  /\ Len(JsonLines) = 1 /\ JsonLines[1].Text = <<>> /\ JsonLines[1].Class = ClassUpdated

C7_OtherPollerStillServed ==
  [][(/\ PacRecvStep \/ AurRecvStep
      /\ ValidConfig
      /\ pacPc = "hung" \/ aurPc = "hung" \/ flag.skipAur)
       => pc' = "emit"]_vars

\* C8: every configuration with interval <= 0, interval-sync < 10 or
\* interval-sync < interval ends with the diagnostic and exit status 1, no
\* poller started and no status emitted.
C8_BadIntervalsRejected ==
  (/\ pc \notin {"parse", "validate"}
   /\ flag.interval <= 0 \/ flag.intervalSync < 10 \/ flag.intervalSync < flag.interval)
    => (pc = "exit1" /\ stdout = <<DiagLine>> /\ pacPc = "off" /\ aurPc = "off")

\* C9: every status emitted with colouring on carries the markup built from
\* the colour flags as they stand after parsing.
C9_FlagColorsUsed ==
  (pc = "select" /\ ValidConfig /\ received /\ ~SlotsEmpty /\ ~flag.noColor)
    => JsonLines[1].Tooltip =
         Join(addFormat(Merged(updatesPac, updatesAur), FlagColors,
                        flag.rawOutput, flag.noColor).lines, Newline)

\* C10: when the listing of a due AUR cycle succeeded with no output, the AUR
\* slot after the cycle's last message holds exactly the informational line.
C10_NothingInstalledRetained ==
  [][(AurRecvStep /\ ValidConfig /\ aurSendLine = 226 /\ ~aurErr /\ Len(aurOutput) = 0)
       => updatesAur'.items = <<MsgNothingInstalled>>]_vars

\* ------------------------------------------------------------ C11
\* the tokens of the i-th line of the merged list
MergedPart(i) == Fields(Merged(updatesPac, updatesAur)[i])

\* every line of the merged list splits into exactly four tokens
AllFourTokens ==
  \A i \in 1..Len(Merged(updatesPac, updatesAur)) : Len(MergedPart(i)) = 4

\* one colour wrapper around the line's own fields, padded to the given widths
OneWrapper(part, nameWidth, versionWidth) ==
  SpanOpen \o ColorAttrOpen \o colors[parseVersion(part[2], part[4]) + 1] \o Quote \o Gt
    \o PadRight(part[1], nameWidth) \o Space \o PadRight(part[2], versionWidth)
    \o Arrow \o part[4] \o SpanClose

\* the widest token at position pos over the merged list
WidestField(pos) ==
  LET n == Len(Merged(updatesPac, updatesAur))
  IN  CHOOSE w \in {Len(MergedPart(i)[pos]) : i \in 1..n} :
        \A i \in 1..n : Len(MergedPart(i)[pos]) <= w

\* C11: with raw-output and no-color both off, the status emitted for a merged
\* list of two or more four-token lines shows, for each line, that line's own
\* name, old version and new version once, padded to the longest name and the
\* longest old version, inside exactly one colour wrapper.
C11_EachLineRenderedOnce ==
  ( /\ pc = "select" /\ received
    /\ ~flag.rawOutput /\ ~flag.noColor
    /\ Len(Merged(updatesPac, updatesAur)) >= 2
    /\ AllFourTokens )
  => stdout[1].Tooltip =
       Join([i \in 1..Len(Merged(updatesPac, updatesAur)) |->
               OneWrapper(MergedPart(i), WidestField(1), WidestField(2))], Newline)

\* ------------------------------------------------------------ C12
\* the first position at which the two versions differ, a position past the end
\* of one of them counting as different; the last position when they are equal
FirstDifference(oldVersion, newVersion) ==
  LET last == Max(Len(oldVersion), Len(newVersion))
      differs(i) == i > Len(oldVersion) \/ i > Len(newVersion) \/ oldVersion[i] # newVersion[i]
  IN  IF \E i \in 1..last : differs(i)
        THEN CHOOSE i \in 1..last : differs(i) /\ \A j \in 1..(i - 1) : ~differs(j)
        ELSE last

\* the number of '.' and '-' in newVersion up to and including that position
SeparatorsUpToDifference(oldVersion, newVersion) ==
  Cardinality({k \in 1..FirstDifference(oldVersion, newVersion) :
                 k <= Len(newVersion) /\ newVersion[k] \in {".", "-"}})

\* C12: for every pair of versions of a delivered four-token line, also when
\* the two differ in length or one is a prefix of the other, parseVersion
\* returns the number of '.' and '-' characters of the new version at positions
\* up to and including the first differing position.
C12_CountsSeparatorsUpToDifference ==
  \A i \in 1..Len(updatesPac.items) :
    LET part == Fields(updatesPac.items[i])
    IN  Len(part) = 4 =>
          parseVersion(part[2], part[4]) = SeparatorsUpToDifference(part[2], part[4])

\* ------------------------------------------------------------ C13
\* the lines of the tooltip on standard output: the text between the ends of
\* line (position 0 standing for the start, one past the end for the end)
ShownBreaks ==
  LET t == stdout[1].Tooltip
  IN  {0, Len(t) + 1} \cup {k \in 1..Len(t) : t[k] = "\n"}

ShownBreak(i) ==
  CHOOSE k \in ShownBreaks : Cardinality({j \in ShownBreaks : j < k}) = i

ShownLines ==
  [i \in 1..(Cardinality(ShownBreaks) - 1) |->
     SubSeq(stdout[1].Tooltip, ShownBreak(i - 1) + 1, ShownBreak(i) - 1)]

\* C13: in every output mode, a line of the merged list that does not split
\* into exactly four tokens stands in the emitted tooltip unchanged, at its own
\* position, and the emitted count includes it.
C13_MalformedLinesUnchanged ==
  LET merged == Merged(updatesPac, updatesAur)
  IN  (pc = "select" /\ received /\ Len(merged) > 0)
      => /\ Atoi(stdout[1].Text) = Len(merged)
         /\ Len(ShownLines) = Len(merged)
         /\ \A i \in 1..Len(merged) :
              Len(Fields(merged[i])) # 4 => ShownLines[i] = merged[i]

\* a status with markup has been emitted for a list that holds a non-empty
\* line of other than four tokens next to a four-token line
C13_Witness ==
  LET merged == Merged(updatesPac, updatesAur)
  IN  /\ pc = "select" /\ received
      /\ ~flag.rawOutput /\ ~flag.noColor
      /\ \E i, j \in 1..Len(merged) :
           /\ Len(Fields(merged[i])) \notin {0, 4}
           /\ Len(Fields(merged[j])) = 4
           /\ ShownLines[j] # merged[j]

\* ------------------------------------------------------------ C14
\* C14: when the checker fails with an exit code other than 2, the value
\* checkUpdates sends is a list of exactly one line, the diagnostic.
C14_FailureSendsDiagnostic ==
  (ValidConfig /\ pacPc = "send" /\ pacOutcome = "fail")
  => (~pacMsg.isNil /\ Len(pacMsg.items) = 1)

\* ------------------------------------------------------------ C15
\* C15: on a due tick whose listing fails, checkAurUpdates sends the diagnostic
\* line and nothing more in that tick: the receive of the diagnostic leaves it
\* at the start of its next tick, with the diagnostic as the retained AUR slot.
C15_ListingFailureEndsTick ==
  [][(ValidConfig /\ AurRecvStep /\ aurSendLine = 193 /\ pc' # "panic")
      => (aurPc' = "tick" /\ updatesAur' = MkSlice(<<MsgListError>>))]_vars

\* ------------------------------------------------------------ C16
\* C16: for every updateOnIter >= 1 the first tick of checkAurUpdates is due,
\* and after it a tick is due exactly when it is the updateOnIter-th tick
\* since the last due one; every other tick runs no command and no request
\* and sends exactly one nil.
C16_AurCadence ==
  [][ /\ AurDueTick => (firstCall \/ aurSinceDue = updateOnIter - 1)
      /\ AurOffTick =>
           /\ ~firstCall /\ aurSinceDue < updateOnIter - 1
           /\ aurPc' = "send" /\ aurSendLine' = 186 /\ aurMsg' = NilSlice
           /\ UNCHANGED <<aurErr, aurOutput, aurQueryErr, aurPackages>>
      /\ (AurRecvStep /\ aurSendLine = 186 /\ Running')
           => (aurPc' = "tick" /\ updatesAur' = updatesAur) ]_vars

\* with updateOnIter = 3, two ticks that were not due have passed and the
\* third tick is about to run as a due one
C16_Witness ==
  /\ updateOnIter = 3 /\ aurPc = "tick" /\ ~firstCall
  /\ aurSinceDue = 2 /\ aurIter = updateOnIter

\* ------------------------------------------------------------ C17
\* no check of checkUpdates has run yet
PacFirstTick == ~pacSync /\ pacSinceSync = 0

\* C17: for every updateOnIter >= 1 the first check of checkUpdates runs
\* without --nosync, and after it a check runs without --nosync exactly when
\* it is the updateOnIter-th check since the last such one; every check is
\* followed by exactly one send and then the sleep.
C17_PacCadence ==
  [][ /\ PacCheck =>
           /\ pacSync' <=> (PacFirstTick \/ pacSinceSync = updateOnIter - 1)
           /\ pacPc' = "send"
      /\ (PacRecvStep /\ Running') => pacPc' = "sleep"
      /\ (pacPc = "send" /\ pacPc' # "send" /\ Running') => PacRecvStep
      /\ (pacPc = "sleep" /\ pacPc' # "sleep" /\ Running') => pacPc' = "check" ]_vars

\* with updateOnIter = 3, two checks with --nosync have been run and sent since
\* the last check without it, and the third check is about to run
C17_Witness ==
  /\ updateOnIter = 3 /\ pacPc = "check"
  /\ pacSinceSync = 2 /\ pacIter = updateOnIter

\* ------------------------------------------------------------ C18
\* checkAurUpdates is sending the update list of a tick on which the listing
\* and the registry request succeeded
SendsUpdateList == aurPc = "send" /\ aurSendLine = 226 /\ ~aurErr /\ ~aurQueryErr

\* the returned records whose version is not the installed one
DifferingRecords ==
  {k \in 1..Len(aurPackages) :
     aurPackages[k].Version # Lookup(LocalPackages(aurOutput), aurPackages[k].Name)}

\* C18: on a due tick with a successful listing and registry request the list
\* sent holds exactly one line "aur/<name> <installed> -> <registry>" for each
\* returned record whose version differs from the installed one and nothing
\* else: no line for an installed package without a record, none for a record
\* with the installed version.
C18_OneLinePerDifferingRecord ==
  SendsUpdateList =>
    /\ Len(aurMsg.items) = Cardinality(DifferingRecords)
    /\ {aurMsg.items[k] : k \in 1..Len(aurMsg.items)} =
         {AurPrefix \o aurPackages[k].Name \o Space
            \o LocalPackages(aurOutput)[aurPackages[k].Name]
            \o Arrow \o aurPackages[k].Version : k \in DifferingRecords}

\* two packages are installed, the registry returned both, and only one of the
\* two records differs: the list sent has one line
C18_Witness ==
  /\ SendsUpdateList
  /\ Cardinality(DOMAIN LocalPackages(aurOutput)) = 2
  /\ Len(aurPackages) = 2
  /\ Len(aurMsg.items) = 1

\* ------------------------------------------------------------ C19
\* the line begins with the opening of a markup wrapper
HasMarkup(line) == Len(line) >= Len(SpanOpen) /\ SubSeq(line, 1, Len(SpanOpen)) = SpanOpen

\* C19: a retained slot changes only in a receive on its own channel, and then
\* only to the non-nil list received, as delivered; merging, formatting and
\* emitting leave both slots alone, so no retained line ever carries markup.
C19_SlotsKeepDeliveredLines ==
  [][ /\ updatesPac' = IF PacRecvStep /\ ~pacMsg.isNil THEN pacMsg ELSE updatesPac
      /\ updatesAur' = IF AurRecvStep /\ ~aurMsg.isNil THEN aurMsg ELSE updatesAur
      /\ \A slot \in {updatesPac', updatesAur'} :
           \A i \in 1..Len(slot.items) : ~HasMarkup(slot.items[i]) ]_vars

\* the status on standard output carries markup, it was computed from a
\* pacman slot that was formatted before (the last check sent nil), and the
\* slot holds lines
C19_Witness ==
  /\ pc = "select" /\ received
  /\ pacPc = "sleep" /\ pacOutcome = "exit2" /\ pacSinceSync >= 1
  /\ HoldsUpdates(updatesPac)
  /\ HasMarkup(stdout[1].Tooltip)

\* ------------------------------------------------------------ C20
\* C20: for every four-token line delivered on which parseVersion returns,
\* the category it returns is an index into the palette (0 to 4), so that the
\* palette lookup of line 124 is defined.
C20_CategoryWithinPalette ==
  \A i \in 1..Len(updatesPac.items) :
    LET part == Fields(updatesPac.items[i])
        category == parseVersion(part[2], part[4])
    IN  (Len(part) = 4 /\ category >= 0) => category < Len(colors)

====
